---- MODULE Spec2Model ----
(***************************************************************************)
(* ID3 decision tree of ml.py: get_entropy, split_dataset,                 *)
(* find_best_split, build_tree and classify, called by a client that owns  *)
(* a dataset, its headers, a built tree and an observation.                *)
(*                                                                         *)
(* Python lists are sequences.  Python dicts are insertion-ordered, and    *)
(* the code depends on that order (max(counts, key=counts.get) returns the *)
(* first maximal key), so a dict is a sequence of [key, val] records in    *)
(* insertion order.  Python indices are 0-based and are kept 0-based in    *)
(* every interface (index -1 is the "no feature" sentinel); element k of a *)
(* Python list is element k+1 of the sequence.                             *)
(*                                                                         *)
(* Floats: every float the code produces is log2 of a rational divided by  *)
(* a row count.  A float h is the record [num, den, scale] with            *)
(* h = log2(num/den)/scale, kept in lowest terms.  Sums, differences and   *)
(* comparisons are exact; IEEE rounding is not modelled.                   *)
(***************************************************************************)
EXTENDS Integers, Sequences, FiniteSets, TLC

VARIABLES dataset, headers, tree, observation, result

vars == <<dataset, headers, tree, observation, result>>

\* ------------------------------------------------------------------ bounds

MaxRows == 4

FeatureNames == <<"outlook", "temp">>
TargetName == "play"
Values == {"Sunny", "Rain"}
Labels == {"Yes", "No"}
UnseenValue == "Foggy"

\* The end-to-end scenario of the play-tennis demo (four rows, four features).
TennisHeaders == <<"outlook", "temp", "humidity", "wind", "play">>
TennisRows ==
  << <<"Sunny", "Hot", "High", "Weak", "No">>,
     <<"Overcast", "Hot", "High", "Weak", "Yes">>,
     <<"Rain", "Cool", "Normal", "Weak", "Yes">>,
     <<"Sunny", "Cool", "Normal", "Strong", "No">> >>

\* ------------------------------------------------------------------ dicts

EmptyDict == <<>>

DictKeys(d) == {d[k].key : k \in DOMAIN d}

DictHas(d, key) == \E k \in DOMAIN d : d[k].key = key

DictGet(d, key) == d[CHOOSE k \in DOMAIN d : d[k].key = key].val

\* d[key] = val: an existing key keeps its position, a new key goes last.
DictSet(d, key, val) ==
  IF DictHas(d, key)
  THEN [k \in DOMAIN d |-> IF d[k].key = key THEN [key |-> key, val |-> val] ELSE d[k]]
  ELSE Append(d, [key |-> key, val |-> val])

\* ----------------------------------------------------------------- floats

\* Row counts factor over these primes (row counts up to 10).
Primes == {2, 3, 5, 7}

\* The exponent of prime p in n >= 1.
RECURSIVE Exponent(_, _)
Exponent(p, n) == IF n % p = 0 THEN 1 + Exponent(p, n \div p) ELSE 0

\* Natural numbers of any size: base-10000 digits, least significant first.
RECURSIVE BigTimesCarry(_, _, _, _)
BigTimesCarry(big, m, k, carry) ==
  IF k > Len(big) THEN (IF carry = 0 THEN <<>> ELSE <<carry>>)
  ELSE LET t == big[k] * m + carry
       IN <<t % 10000>> \o BigTimesCarry(big, m, k + 1, t \div 10000)

\* big * m^e for a small m.
RECURSIVE BigTimesPow(_, _, _)
BigTimesPow(big, m, e) ==
  IF e = 0 THEN big ELSE BigTimesPow(BigTimesCarry(big, m, 1, 0), m, e - 1)

\* The product of p^exp[p] over the primes p of ps with exp[p] > 0.
RECURSIVE BigProduct(_, _)
BigProduct(exp, ps) ==
  IF ps = {} THEN <<1>>
  ELSE LET p == CHOOSE x \in ps : TRUE
       IN BigTimesPow(BigProduct(exp, ps \ {p}), p, IF exp[p] > 0 THEN exp[p] ELSE 0)

RECURSIVE BigGreater(_, _, _)
BigGreater(a, b, k) ==
  IF Len(a) # Len(b) THEN Len(a) > Len(b)
  ELSE IF k = 0 THEN FALSE
  ELSE IF a[k] # b[k] THEN a[k] > b[k]
  ELSE BigGreater(a, b, k - 1)

\* Whether the rational with prime exponents exp is greater than 1.
GreaterThanOne(exp) ==
  LET num == BigProduct(exp, Primes)
      den == BigProduct([p \in Primes |-> 0 - exp[p]], Primes)
  IN BigGreater(num, den, Len(num))

\* A float: log2(q)/scale, q the rational with prime exponents exp.
\* The literal 0.0, in the scale of the values it is going to be combined with.
FloatZero(s) == [exp |-> [p \in Primes |-> 0], scale |-> s]

\* a + b and a - b for two floats of one scale.
FloatAdd(a, b) == [exp |-> [p \in Primes |-> a.exp[p] + b.exp[p]], scale |-> a.scale]

FloatSub(a, b) == [exp |-> [p \in Primes |-> a.exp[p] - b.exp[p]], scale |-> a.scale]

FloatIsZero(a) == \A p \in Primes : a.exp[p] = 0

FloatIsPositive(a) == GreaterThanOne(a.exp)

FloatIsNegative(a) == ~FloatIsZero(a) /\ ~FloatIsPositive(a)

\* a > b for two floats of one scale.
FloatGT(a, b) == FloatIsPositive(FloatSub(a, b))

\* a == 1.0: q = 2^scale.
FloatIsOne(a) == \A p \in Primes : a.exp[p] = (IF p = 2 THEN a.scale ELSE 0)

\* p * math.log2(p) for p = count / total, in scale total:
\* p*log2(p) = log2((count/total)^count) / total.
PLog2P(count, total) ==
  [exp |-> [p \in Primes |-> count * (Exponent(p, count) - Exponent(p, total))],
   scale |-> total]

\* (size / total) * e for e = get_entropy(subset), size = len(subset) > 0:
\* e = log2(q)/size, so the product is log2(q)/total.
WeightTimes(size, total, e) == [exp |-> e.exp, scale |-> total]

\* ------------------------------------------------------------ get_entropy

\* row[-1]
Label(row) == row[Len(row)]

\* The tally loop: counts[label] = counts.get(label, 0) + 1, over rows 1..n.
RECURSIVE CountLabels(_, _)
CountLabels(rows, n) ==
  IF n = 0 THEN EmptyDict
  ELSE LET counts == CountLabels(rows, n - 1)
           label == Label(rows[n])
       IN DictSet(counts, label,
                  (IF DictHas(counts, label) THEN DictGet(counts, label) ELSE 0) + 1)

\* The loop with the sign of the update turned: entropy += p * log2(p).
RECURSIVE EntropyLoopAdds(_, _, _)
EntropyLoopAdds(counts, total, n) ==
  IF n = 0 THEN FloatZero(total)
  ELSE LET entropy == EntropyLoopAdds(counts, total, n - 1)
           count == counts[n].val
       IN IF count > 0 THEN FloatAdd(entropy, PLog2P(count, total)) ELSE entropy

\* The loop over counts.values(): entropy -= p * log2(p) when p > 0.
RECURSIVE EntropyLoop(_, _, _)
EntropyLoop(counts, total, n) ==
  IF n = 0 THEN FloatZero(total)
  ELSE LET entropy == EntropyLoop(counts, total, n - 1)
           count == counts[n].val
       IN IF count > 0 THEN FloatSub(entropy, PLog2P(count, total)) ELSE entropy

get_entropy(rows) ==
  IF rows = <<>> THEN FloatZero(1)
  ELSE EntropyLoop(CountLabels(rows, Len(rows)), Len(rows), Len(CountLabels(rows, Len(rows))))

\* ---------------------------------------------------------- split_dataset

\* The slices taken with index as a 1-based position: row[:index-1] + row[index:].
ReducedRowOneBased(row, index) ==
  [k \in 1..(Len(row) - 1) |-> IF k < index THEN row[k] ELSE row[k + 1]]

\* row[:index] + row[index+1:], a new list.
ReducedRow(row, index) ==
  [k \in 1..(Len(row) - 1) |-> IF k <= index THEN row[k] ELSE row[k + 1]]

\* The loop body deleting the column in place: del row[index].
SplitStepInPlace(st, index, n) ==
  LET row == st.rows[n]
      value == row[index + 1]
      reduced_row == [k \in 1..(Len(row) - 1) |-> IF k <= index THEN row[k] ELSE row[k + 1]]
      group == IF DictHas(st.splits, value) THEN DictGet(st.splits, value) ELSE <<>>
  IN [rows |-> [st.rows EXCEPT ![n] = reduced_row],
      splits |-> DictSet(st.splits, value, Append(group, reduced_row))]

\* The loop body appending the row itself: the split column is not removed.
SplitStepKeepsColumn(st, index, n) ==
  LET row == st.rows[n]
      value == row[index + 1]
      group == IF DictHas(st.splits, value) THEN DictGet(st.splits, value) ELSE <<>>
  IN [rows |-> st.rows,
      splits |-> DictSet(st.splits, value, Append(group, row))]

\* One iteration of the loop on row n: what it leaves in the caller's list
\* (rows) and in the local dict (splits).
SplitStep(st, index, n) ==
  LET row == st.rows[n]
      value == row[index + 1]
      reduced_row == ReducedRow(row, index)
      group == IF DictHas(st.splits, value) THEN DictGet(st.splits, value) ELSE <<>>
  IN [rows |-> st.rows,
      splits |-> DictSet(st.splits, value, Append(group, reduced_row))]

\* The loop started from a dict that already holds an empty group for the
\* values no row has.
RECURSIVE EmptyGroups(_)
EmptyGroups(vs) ==
  IF vs = {} THEN EmptyDict
  ELSE LET v == CHOOSE x \in vs : TRUE
       IN Append(EmptyGroups(vs \ {v}), [key |-> v, val |-> <<>>])

RECURSIVE SplitLoopDefaultGroup(_, _, _)
SplitLoopDefaultGroup(rows, index, n) ==
  IF n = 0 THEN [rows |-> rows, splits |-> EmptyGroups({UnseenValue})]
  ELSE SplitStep(SplitLoopDefaultGroup(rows, index, n - 1), index, n)

RECURSIVE SplitLoop(_, _, _)
SplitLoop(rows, index, n) ==
  IF n = 0 THEN [rows |-> rows, splits |-> EmptyDict]
  ELSE SplitStep(SplitLoop(rows, index, n - 1), index, n)

split_dataset(rows, index) == SplitLoop(rows, index, Len(rows)).splits

\* The caller's list of rows as split_dataset leaves it.
RowsAfterSplit(rows, index) == SplitLoop(rows, index, Len(rows)).rows

\* -------------------------------------------------------- find_best_split

\* The inner loop over splits.values(): weighted_entropy += weight * entropy.
RECURSIVE WeightedEntropy(_, _, _)
WeightedEntropy(splits, total_rows, n) ==
  IF n = 0 THEN FloatZero(total_rows)
  ELSE LET subset == splits[n].val
       IN FloatAdd(WeightedEntropy(splits, total_rows, n - 1),
                   WeightTimes(Len(subset), total_rows, get_entropy(subset)))

\* gain of feature i (0-based): base_entropy - weighted_entropy.
Gain(rows, i) ==
  LET splits == split_dataset(rows, i)
  IN FloatSub(get_entropy(rows), WeightedEntropy(splits, Len(rows), Len(splits)))

\* The comparison as gain >= best_gain: a tie replaces the best so far.
ImprovesOrTies(gain, best_gain) == ~FloatGT(best_gain, gain)

\* Whether the loop replaces the best so far: gain > best_gain.
Improves(gain, best_gain) == FloatGT(gain, best_gain)

\* The loop over range(n_features), after features 0..n-1.
RECURSIVE BestSplitLoop(_, _)
BestSplitLoop(rows, n) ==
  IF n = 0 THEN [index |-> -1, gain |-> FloatZero(Len(rows))]
  ELSE LET best == BestSplitLoop(rows, n - 1)
           gain == Gain(rows, n - 1)
       IN IF Improves(gain, best.gain) THEN [index |-> n - 1, gain |-> gain] ELSE best

find_best_split(rows) ==
  IF rows = <<>> \/ Len(rows[1]) <= 1
  THEN [index |-> -1, gain |-> FloatZero(1)]
  ELSE BestSplitLoop(rows, Len(rows[1]) - 1)

\* ------------------------------------------------------------- build_tree

NoneTree == [kind |-> "none"]
Leaf(label) == [kind |-> "leaf", label |-> label]
Node(feature, children) == [kind |-> "node", feature |-> feature, children |-> children]

\* A maximum that keeps the last of the equal counts.
MaxReplacesOnTie(count, best_count) == count >= best_count

\* Whether max() replaces its best so far: only a strictly larger count does.
MaxReplaces(count, best_count) == count > best_count

\* max(counts, key=counts.get): the first key, in insertion order, of maximal count.
RECURSIVE MaxKeyLoop(_, _)
MaxKeyLoop(counts, n) ==
  IF n = 1 THEN counts[1]
  ELSE LET best == MaxKeyLoop(counts, n - 1)
       IN IF MaxReplaces(counts[n].val, best.val) THEN counts[n] ELSE best

MajorityLabel(counts) == MaxKeyLoop(counts, Len(counts)).key

\* The headers passed on whole: the used feature is not removed.
NewHeadersKeepsAll(hs, best_idx) == hs

\* headers[:best_idx] + headers[best_idx+1:]
NewHeaders(hs, best_idx) == ReducedRow(hs, best_idx)

\* One invocation of build_tree up to its recursive calls: the absent tree, a
\* leaf, or the split it recurses on.
BuildStep(rows, hs) ==
  IF rows = <<>> THEN NoneTree
  ELSE LET counts == CountLabels(rows, Len(rows)) IN
    IF Len(counts) = 1 THEN Leaf(counts[1].key)
    ELSE IF Len(rows[1]) = 1 THEN Leaf(MajorityLabel(counts))
    ELSE LET best == find_best_split(rows) IN
      IF FloatIsZero(best.gain) THEN Leaf(MajorityLabel(counts))
      ELSE [kind |-> "split",
            best_feature |-> hs[best.index + 1],
            new_headers |-> NewHeaders(hs, best.index),
            splits |-> split_dataset(rows, best.index)]

\* The loop over splits.items(): tree[best_feature][value] = build_tree(subset, new_headers).
RECURSIVE build_tree(_, _)
build_tree(rows, hs) ==
  LET step == BuildStep(rows, hs) IN
  IF step.kind = "split"
  THEN Node(step.best_feature,
            [k \in DOMAIN step.splits |->
               [key |-> step.splits[k].key,
                val |-> build_tree(step.splits[k].val, step.new_headers)]])
  ELSE step

\* Every invocation of build_tree made for build_tree(rows, hs), the outer one
\* included: its arguments, its recursion depth and the rows of its caller
\* (for the outer one, its own).
RECURSIVE BuildCalls(_, _, _, _)
BuildCalls(rows, hs, depth, caller) ==
  LET step == BuildStep(rows, hs) IN
  {[rows |-> rows, headers |-> hs, depth |-> depth, caller |-> caller]} \cup
  (IF step.kind = "split"
   THEN UNION {BuildCalls(step.splits[k].val, step.new_headers, depth + 1, rows) :
                 k \in DOMAIN step.splits}
   ELSE {})

\* The caller's rows as find_best_split leaves them: it passes them to
\* split_dataset once per feature column.
RECURSIVE RowsAfterBestSplitLoop(_, _)
RowsAfterBestSplitLoop(rows, n) ==
  IF n = 0 THEN rows
  ELSE RowsAfterSplit(RowsAfterBestSplitLoop(rows, n - 1), n - 1)

RowsAfterBestSplit(rows) ==
  IF rows = <<>> \/ Len(rows[1]) <= 1 THEN rows
  ELSE RowsAfterBestSplitLoop(rows, Len(rows[1]) - 1)

\* The caller's rows as build_tree leaves them: the recursive calls get the
\* new lists split_dataset made.
RowsAfterBuild(rows) ==
  IF rows = <<>> \/ Len(CountLabels(rows, Len(rows))) = 1 \/ Len(rows[1]) = 1 THEN rows
  ELSE IF FloatIsZero(find_best_split(rows).gain) THEN RowsAfterBestSplit(rows)
  ELSE RowsAfterSplit(RowsAfterBestSplit(rows), find_best_split(rows).index)

\* --------------------------------------------------------------- classify

Unknown == "Unknown"
\* What classify returns for the absent tree (Python's None).
NoneResult == "None"

\* value not in tree[feature], for value = observation.get(feature): an absent
\* key gives None, which is no child key.
NotInChildren(obs, node) ==
  \/ node.feature \notin DOMAIN obs
  \/ ~DictHas(node.children, obs[node.feature])

\* The walk taking the first child where no child matches.
RECURSIVE classifyFirstChild(_, _)
classifyFirstChild(obs, t) ==
  IF t.kind = "leaf" THEN t.label
  ELSE IF t.kind = "none" THEN NoneResult
  ELSE IF t.feature \notin DOMAIN obs \/ ~DictHas(t.children, obs[t.feature])
       THEN classifyFirstChild(obs, t.children[1].val)
  ELSE classifyFirstChild(obs, DictGet(t.children, obs[t.feature]))

RECURSIVE classify(_, _)
classify(obs, t) ==
  IF t.kind = "leaf" THEN t.label
  ELSE IF t.kind = "none" THEN NoneResult
  ELSE IF NotInChildren(obs, t) THEN Unknown
  ELSE classify(obs, DictGet(t.children, obs[t.feature]))

\* ------------------------------------------------------------- the client

\* The rows the client may hold: nf feature values and a label.
RowsOf(nf) ==
  {r \in [1..(nf + 1) -> Values \cup Labels] :
     /\ r[nf + 1] \in Labels
     /\ \A k \in 1..nf : r[k] \in Values}

HeadersOf(nf) == SubSeq(FeatureNames, 1, nf) \o <<TargetName>>

DatasetsOf(nf) == UNION {[1..n -> RowsOf(nf)] : n \in 0..MaxRows}

\* The values of column f (a header name) in the rows.
ColumnIndex(hs, f) == CHOOSE k \in DOMAIN hs : hs[k] = f

ColumnValues(rows, hs, f) == {rows[n][ColumnIndex(hs, f)] : n \in DOMAIN rows}

FeaturesOf(hs) == {hs[k] : k \in 1..(Len(hs) - 1)}

\* The observations a request may carry: any subset of the feature names,
\* each with a value of its training column or a value never seen.
Observations(rows, hs) ==
  UNION {{obs \in [D -> UNION {ColumnValues(rows, hs, f) : f \in D} \cup {UnseenValue}] :
            \A f \in D : obs[f] \in ColumnValues(rows, hs, f) \cup {UnseenValue}} :
         D \in SUBSET FeaturesOf(hs)}

NoObservation == [f \in {} |-> UnseenValue]

Unbuilt == [kind |-> "unbuilt"]

Init ==
  /\ \/ \E nf \in 0..Len(FeatureNames) :
          /\ headers = HeadersOf(nf)
          /\ dataset \in DatasetsOf(nf)
     \/ /\ headers = TennisHeaders
        /\ dataset = TennisRows
  /\ tree = Unbuilt
  /\ observation = NoObservation
  /\ result = [op |-> "none"]

\* A session of the client: one call of an analysis operation on its dataset,
\* or, as run() does, build_tree and then a prediction request, which it may
\* repeat.
CallGetEntropy ==
  /\ result.op = "none"
  /\ result' = [op |-> "get_entropy", value |-> get_entropy(dataset)]
  /\ observation' = NoObservation
  /\ UNCHANGED <<dataset, headers, tree>>

CallSplitDataset ==
  \E index \in 0..(Len(headers) - 1) :
    /\ result.op = "none"
    /\ result' = [op |-> "split_dataset", index |-> index,
                  value |-> split_dataset(dataset, index)]
    /\ dataset' = RowsAfterSplit(dataset, index)
    /\ observation' = NoObservation
    /\ UNCHANGED <<headers, tree>>

CallFindBestSplit ==
  /\ result.op = "none"
  /\ result' = [op |-> "find_best_split", value |-> find_best_split(dataset)]
  /\ dataset' = RowsAfterBestSplit(dataset)
  /\ observation' = NoObservation
  /\ UNCHANGED <<headers, tree>>

CallBuildTree ==
  /\ result.op = "none"
  /\ tree' = build_tree(dataset, headers)
  /\ result' = [op |-> "build_tree", value |-> tree']
  /\ dataset' = RowsAfterBuild(dataset)
  /\ observation' = NoObservation
  /\ UNCHANGED headers

\* A prediction request: the client makes an observation and classifies it.
CallClassify ==
  /\ result.op = "build_tree"
  /\ \E obs \in Observations(dataset, headers) :
       /\ observation' = obs
       /\ result' = [op |-> "classify", value |-> classify(obs, tree)]
  /\ UNCHANGED <<dataset, headers, tree>>

\* The same request once more, on the same tree and observation objects.
CallClassifyAgain ==
  /\ result.op = "classify"
  /\ result' = [op |-> "classify", value |-> classify(observation, tree)]
  /\ UNCHANGED <<dataset, headers, tree, observation>>

Next ==
  \/ CallGetEntropy
  \/ CallSplitDataset
  \/ CallFindBestSplit
  \/ CallBuildTree
  \/ CallClassify
  \/ CallClassifyAgain

Spec == Init /\ [][Next]_vars

\* ----------------------------------------------- vocabulary of the claims

Width == Len(headers)

LabelsIn(rows) == {Label(rows[n]) : n \in DOMAIN rows}

\* Column i (0-based) removed from a row, by slices.
WithoutColumn(row, i) == SubSeq(row, 1, i) \o SubSeq(row, i + 2, Len(row))

\* The rows whose column i holds v, in their order, with column i removed.
GroupOf(rows, i, v) ==
  LET picked == SelectSeq(rows, LAMBDA r : r[i + 1] = v)
  IN [n \in DOMAIN picked |-> WithoutColumn(picked[n], i)]

RECURSIVE SumOfSizes(_, _)
SumOfSizes(d, n) == IF n = 0 THEN 0 ELSE Len(d[n].val) + SumOfSizes(d, n - 1)

\* obs(r): each feature name with r's value in that column.
ObsOf(row, hs) == [f \in FeaturesOf(hs) |-> row[ColumnIndex(hs, f)]]

\* ------------------------------------------------------------------- C3

\* C3: split_dataset returns a map whose keys are exactly the distinct values
\* of the column, each once; the sizes of its groups sum to the number of
\* rows; and the group of a value is the rows holding that value, in their
\* order, each with only that column removed.
SplitPartitions ==
  result.op = "split_dataset" =>
    LET splits == result.value
        i == result.index
    IN /\ DictKeys(splits) = {dataset[n][i + 1] : n \in DOMAIN dataset}
       /\ Cardinality(DictKeys(splits)) = Len(splits)
       /\ SumOfSizes(splits, Len(splits)) = Len(dataset)
       /\ \A k \in DOMAIN splits :
            /\ splits[k].val = GroupOf(dataset, i, splits[k].key)
            /\ \A n \in DOMAIN splits[k].val : Len(splits[k].val[n]) = Width - 1

\* A split on the middle column of three that makes two groups, one of them
\* of several rows.
SplitWitness ==
  /\ result.op = "split_dataset"
  /\ Width = 3
  /\ result.index = 1
  /\ Len(result.value) = 2
  /\ \E k \in DOMAIN result.value : Len(result.value[k].val) >= 2
  /\ \E n \in DOMAIN dataset : dataset[n][1] # dataset[n][3]

\* ------------------------------------------------------------------- C6

\* C6: get_entropy returns 0.0 for no rows, never a negative number, 0
\* exactly when all rows share one label, and 1.0 for two rows of two
\* different labels.
EntropyRange ==
  result.op = "get_entropy" =>
    LET h == result.value IN
    /\ dataset = <<>> => FloatIsZero(h)
    /\ ~FloatIsNegative(h)
    /\ FloatIsZero(h) <=> Cardinality(LabelsIn(dataset)) <= 1
    /\ (Len(dataset) = 2 /\ Label(dataset[1]) # Label(dataset[2])) => FloatIsOne(h)

\* The entropy of two rows of different labels has been computed, and is 1.0.
EntropyWitness ==
  /\ result.op = "get_entropy"
  /\ Len(dataset) = 2
  /\ Label(dataset[1]) # Label(dataset[2])
  /\ FloatIsOne(result.value)

\* ------------------------------------------------------------------- C4

FeatureColumns == IF dataset = <<>> THEN {} ELSE 0..(Len(dataset[1]) - 2)

\* C4: find_best_split returns the sentinel (-1, 0.0) when there are no rows,
\* when rows have width 1, or when no column has a gain greater than 0;
\* otherwise it returns the lowest-index column among those of maximal gain,
\* with that gain.
BestSplitChoice ==
  result.op = "find_best_split" =>
    LET best == result.value
        positive == {i \in FeatureColumns : FloatIsPositive(Gain(dataset, i))}
    IN IF positive = {}
       THEN best.index = -1 /\ FloatIsZero(best.gain)
       ELSE /\ best.index \in positive
            /\ best.gain = Gain(dataset, best.index)
            /\ \A j \in FeatureColumns : ~FloatGT(Gain(dataset, j), best.gain)
            /\ \A j \in FeatureColumns : j < best.index => FloatGT(best.gain, Gain(dataset, j))

\* Two columns tie at the maximal, positive gain and the earlier one is returned.
BestSplitWitness ==
  /\ result.op = "find_best_split"
  /\ Width = 3
  /\ result.value.index = 0
  /\ FloatIsPositive(result.value.gain)
  /\ Gain(dataset, 1) = Gain(dataset, 0)

\* ------------------------------------------------------------------- C5

CountOf(rows, l) == Cardinality({n \in DOMAIN rows : Label(rows[n]) = l})

FirstAt(rows, l) == CHOOSE n \in DOMAIN rows :
  Label(rows[n]) = l /\ \A m \in 1..(n - 1) : Label(rows[m]) # l

\* The label of the highest count, the first encountered among equals.
IsMajority(rows, l) ==
  /\ l \in LabelsIn(rows)
  /\ \A o \in LabelsIn(rows) :
       \/ CountOf(rows, l) > CountOf(rows, o)
       \/ CountOf(rows, l) = CountOf(rows, o) /\ FirstAt(rows, l) <= FirstAt(rows, o)

\* C5: on non-empty rows build_tree returns a leaf exactly when all rows share
\* one label, or the rows have width 1, or find_best_split reports gain 0;
\* the leaf is the label of the highest count, the first encountered on a tie.
LeafRule ==
  (result.op = "build_tree" /\ dataset # <<>>) =>
    /\ tree.kind = "leaf" <=>
         \/ Cardinality(LabelsIn(dataset)) = 1
         \/ Len(dataset[1]) = 1
         \/ FloatIsZero(find_best_split(dataset).gain)
    /\ tree.kind = "leaf" => IsMajority(dataset, tree.label)

\* A leaf built from rows with feature columns whose two labels tie: no column
\* has gain, and the label met first wins although it is not the only one.
LeafWitness ==
  /\ result.op = "build_tree"
  /\ tree.kind = "leaf"
  /\ Width = 3
  /\ Cardinality(LabelsIn(dataset)) = 2
  /\ \A l \in LabelsIn(dataset) : 2 * CountOf(dataset, l) = Len(dataset)
  /\ tree.label = Label(dataset[1])

\* ------------------------------------------------------------------- C8

\* C8: when find_best_split reports a positive gain at index i, build_tree
\* returns a decision node keyed by headers[i], whose child keys are exactly
\* the distinct values of column i, and whose child under v is build_tree of
\* the group of v (column i removed) with the headers minus index i; the
\* play-tennis rows split first on outlook.
NodeRule ==
  (result.op = "build_tree" /\ find_best_split(dataset).index # -1) =>
    LET i == find_best_split(dataset).index IN
    /\ FloatIsPositive(find_best_split(dataset).gain)
    /\ tree.kind = "node"
    /\ tree.feature = headers[i + 1]
    /\ DictKeys(tree.children) = {dataset[n][i + 1] : n \in DOMAIN dataset}
    /\ Cardinality(DictKeys(tree.children)) = Len(tree.children)
    /\ \A k \in DOMAIN tree.children :
         tree.children[k].val =
           build_tree(GroupOf(dataset, i, tree.children[k].key), WithoutColumn(headers, i))
    /\ dataset = TennisRows => tree.feature = "outlook"

\* A decision node on the second column one of whose children is a decision
\* node again.
NodeWitness ==
  /\ result.op = "build_tree"
  /\ tree.kind = "node"
  /\ tree.feature = "temp"
  /\ \E k \in DOMAIN tree.children : tree.children[k].val.kind = "node"

\* ------------------------------------------------------------------- C9

RECURSIVE Depth(_)
Depth(t) ==
  IF t.kind # "node" THEN 0
  ELSE 1 + (CHOOSE d \in {Depth(t.children[k].val) : k \in DOMAIN t.children} :
              \A k \in DOMAIN t.children : Depth(t.children[k].val) <= d)

\* No feature name of the set used, and none twice, on any path of t.
RECURSIVE NoRepeat(_, _)
NoRepeat(t, used) ==
  t.kind = "node" =>
    /\ t.feature \notin used
    /\ \A k \in DOMAIN t.children : NoRepeat(t.children[k].val, used \cup {t.feature})

\* C9: every recursive call of build_tree gets rows one column narrower than
\* its caller's and no more rows than its caller's; the recursion depth and
\* the depth of the tree never exceed the number of feature columns; no
\* feature name occurs twice on a path.
RecursionBounded ==
  (result.op = "build_tree" /\ dataset # <<>>) =>
    /\ \A call \in BuildCalls(dataset, headers, 0, dataset) :
         /\ call.depth <= Width - 1
         /\ call.depth > 0 =>
              /\ call.rows # <<>>
              /\ Len(call.rows) <= Len(call.caller)
              /\ \A n \in DOMAIN call.rows : Len(call.rows[n]) = Len(call.caller[1]) - 1
              /\ Len(call.headers) = Len(call.rows[1])
    /\ Depth(tree) <= Width - 1
    /\ NoRepeat(tree, {})

\* A tree as deep as there are feature columns.
RecursionWitness ==
  /\ result.op = "build_tree"
  /\ Width = 3
  /\ Depth(tree) = 2
  /\ \E call \in BuildCalls(dataset, headers, 0, dataset) : call.depth = 2

\* ------------------------------------------------------------------ C10

\* The training rows (by position in dataset) an observation-style walk
\* routes to each node of t: every decision node has children, no child is
\* the absent tree, and every leaf is the label of a row routed to it.
RECURSIVE Grounded(_, _)
Grounded(t, routed) ==
  /\ t.kind # "none"
  /\ t.kind = "leaf" => \E n \in routed : Label(dataset[n]) = t.label
  /\ t.kind = "node" =>
       /\ t.children # <<>>
       /\ \A k \in DOMAIN t.children :
            Grounded(t.children[k].val,
                     {n \in routed : ObsOf(dataset[n], headers)[t.feature] = t.children[k].key})

\* C10: in a tree built from a non-empty dataset every decision node has a
\* non-empty child map, no child is the absent tree (no recursive call gets
\* empty rows), and every leaf is a label of a training row routed to it; so
\* classify returns a label of the training rows or "Unknown".
TreeGrounded ==
  /\ (result.op = "build_tree" /\ dataset # <<>>) =>
       /\ Grounded(tree, DOMAIN dataset)
       /\ \A call \in BuildCalls(dataset, headers, 0, dataset) : call.rows # <<>>
  /\ (result.op = "classify" /\ dataset # <<>>) =>
       result.value \in LabelsIn(dataset) \cup {Unknown}

\* A walk through two decision nodes that ends in a label of the training rows.
TreeGroundedWitness ==
  /\ result.op = "classify"
  /\ Depth(tree) = 2
  /\ result.value \in LabelsIn(dataset)
  /\ \E k \in DOMAIN tree.children :
       /\ tree.children[k].key = observation[tree.feature]
       /\ tree.children[k].val.kind = "node"

\* ------------------------------------------------------------------- C2

RECURSIVE Subtrees(_)
Subtrees(t) ==
  {t} \cup (IF t.kind = "node"
            THEN UNION {Subtrees(t.children[k].val) : k \in DOMAIN t.children}
            ELSE {})

\* C2: at any depth, classify on a decision node returns "Unknown" when the
\* node's feature name is absent from the observation or the observation's
\* value for it is no child key, and otherwise what the matching child gives;
\* a leaf is returned as it is.
ClassifyWalk ==
  result.op = "classify" =>
    /\ result.value = classify(observation, tree)
    /\ \A t \in Subtrees(tree) :
         /\ t.kind = "leaf" => classify(observation, t) = t.label
         /\ t.kind = "node" =>
              IF t.feature \in DOMAIN observation
                 /\ observation[t.feature] \in DictKeys(t.children)
              THEN \E k \in DOMAIN t.children :
                     /\ t.children[k].key = observation[t.feature]
                     /\ classify(observation, t) = classify(observation, t.children[k].val)
              ELSE classify(observation, t) = Unknown

\* "Unknown" from the second decision node of the walk, whose feature
\* is absent from the observation.
ClassifyWitness ==
  /\ result.op = "classify"
  /\ result.value = Unknown
  /\ tree.kind = "node"
  /\ tree.feature \in DOMAIN observation
  /\ \E k \in DOMAIN tree.children :
       /\ tree.children[k].key = observation[tree.feature]
       /\ tree.children[k].val.kind = "node"
       /\ tree.children[k].val.feature \notin DOMAIN observation

\* ------------------------------------------------------------------- C7

\* C7: no call changes its arguments: the client's rows and headers are the
\* same after every call, a built tree and the observation of a request are
\* the same after classify, and the repeated request gives the same result.
ArgumentsUnchanged ==
  [][/\ dataset' = dataset
     /\ headers' = headers
     /\ tree # Unbuilt => tree' = tree
     /\ result.op = "classify" => (observation' = observation /\ result' = result)]_vars

\* The tree has been built by splitting all the rows the bound allows, and a
\* request has been classified on it.
ArgumentsWitness ==
  /\ result.op = "classify"
  /\ tree.kind = "node"
  /\ Len(dataset) = MaxRows
  /\ Width = 3
  /\ DOMAIN observation = FeaturesOf(headers)

\* ------------------------------------------------------------------- C1

\* No two rows with the same feature values and different labels.
Consistent(rows) ==
  \A m, n \in DOMAIN rows :
    SubSeq(rows[m], 1, Len(rows[m]) - 1) = SubSeq(rows[n], 1, Len(rows[n]) - 1)
      => Label(rows[m]) = Label(rows[n])

\* C1: for a non-empty dataset without contradicting rows, classifying the
\* observation of any training row on the built tree gives that row's label.
TrainingSetConsistency ==
  (result.op = "build_tree" /\ dataset # <<>> /\ Consistent(dataset)) =>
    \A n \in DOMAIN dataset :
      classify(ObsOf(dataset[n], headers), tree) = Label(dataset[n])

====
